---- MODULE Spec2Model ----
(***************************************************************************)
(* Model of hypercane's HypercaneMementoCollectionModel and of the         *)
(* off-topic detection built on it (src/hypercane/reduce/remove_offtopic.py)*)
(*                                                                         *)
(* Ten specifications share the variables:                                *)
(*   Spec         a single caller driving the memento operations of one    *)
(*                Collection Model instance (one action per method);       *)
(*   TimeMapSpec  the TimeMap operations of the same instance;             *)
(*   BatchSpec    one run of addManyMementos from a fresh instance, the    *)
(*                futures settling concurrently with the polling loop;     *)
(*   ClassifySpec detect_off_topic applied to drawn measure mappings;      *)
(*   DedupSpec    fingerprinting a collection with near-duplicates and     *)
(*                resolving fingerprints to their canonical URI-M;         *)
(*   RegistrySpec registering mementos and TimeMaps and reading the lists; *)
(*   PermanenceSpec the operations that write to the Error Store or are    *)
(*                gated by it;                                             *)
(*   OntopicSpec  get_list_of_ontopic applied to drawn measure models;     *)
(*   RaceSpec     two callers of the memoizing methods on one database;    *)
(*   InputSpec    process_collection_input_types applied to drawn          *)
(*                arguments (src/hypercane/actions/__init__.py).           *)
(***************************************************************************)
EXTENDS Integers, Sequences, FiniteSets, TLC

VARIABLES
    urimlist,            \* self.urimlist
    uritlist,            \* self.uritlist
    error_collection,    \* db.mementoerrors, in insertion order
    bpfree_collection,   \* db.bpfree, in insertion order
    derived_collection,  \* db.derivedvalues, in insertion order
    ret,                 \* what the last call did: its outcome, value and collaborator calls
    pc,                  \* addManyMementos: position of the run
    urims,               \* addManyMementos: the argument
    working_urim_list,   \* addManyMementos: the pending list
    futures,             \* addManyMementos: uri -> state of its future
    archive,             \* addManyMementos: how the fetch of each URI-M settles
    timemap_measures,    \* detect_off_topic: the measures mapping, in iteration order
    scores,              \* detect_off_topic: what each measure function scores each URI-M
    ontopic,             \* detect_off_topic / get_list_of_ontopic: the return value
    measuremodel,        \* get_list_of_ontopic: its argument
    memento_datetime,    \* the memento-datetime header the session holds for each URI-M
    callers,             \* two callers on one database: where each is in its call
    input_argument       \* process_collection_input_types: its argument

vars == << urimlist, uritlist, error_collection, bpfree_collection,
           derived_collection, ret, pc, urims, working_urim_list, futures,
           archive, timemap_measures, scores, ontopic, measuremodel,
           memento_datetime, callers, input_argument >>

batchvars == << pc, urims, working_urim_list, futures, archive >>
classifyvars == << timemap_measures, scores, ontopic, measuremodel >>
othervars == << memento_datetime, callers, input_argument >>

-----------------------------------------------------------------------------
(* Bounds of the model *)

MaxRegistered == 2   \* addMemento stops appending at this length of urimlist
MaxTimeMaps == 3     \* addTimeMap stops appending at this length of uritlist
MaxErrors == 2       \* no Error Record is inserted beyond this many
MaxBatch == 3        \* the longest list handed to addManyMementos
MaxTokens == 3       \* the longest -i argument, in tokens

-----------------------------------------------------------------------------
(* Values *)

URIMs == {"m1", "m2"}
URITs == {"t1", "t2"}

\* Python's None, as a return value and as a stored field
None == "None"
\* a document without the key "raw simhash" (reading it raises KeyError)
NoKey == "<no key>"

\* what a request through the session can do: return a response or raise one of
\* requests' exceptions (ConnectionError, TooManyRedirects, or another
\* RequestException such as Timeout)
FetchOutcomes == {"ok", "ConnectionError", "TooManyRedirects", "Timeout"}

\* error information a caller hands to addMementoError (bytes or str)
CallerErrorInfo == {"info"}

\* otmt.generate_raw_urim: the URI of the raw-content counterpart
generate_raw_urim(urim) == urim \o "id_"

\* session.get(uri).text: the cached body behind each raw URI-M.  m1 (as m3
\* and m4) is a page of two paragraphs, m2 an empty document.
Text(uri) ==
    CASE uri \in {"m1id_", "m3id_", "m4id_"} -> "<p>a</p><p>b</p>"
      [] uri = "m2id_" -> ""
      [] OTHER -> "body of " \o uri

\* justext(content, stoplist): the text of each paragraph, or the lxml error
\* raised for a document that cannot be parsed
justext(content) ==
    CASE content = "<p>a</p><p>b</p>" -> [ raised |-> None, paragraphs |-> << "a", "b" >> ]
      [] content = "" -> [ raised |-> "ParserError", paragraphs |-> << >> ]
      [] OTHER -> [ raised |-> None, paragraphs |-> << >> ]

\* Simhash(content).value: an integer fingerprint of the content
Simhash(content) ==
    CASE content = "<p>a</p><p>b</p>" -> 11
      [] content = "" -> 0
      [] OTHER -> 7

\* str(n)
str(n) == ToString(n)

\* bytes(repr(e), "utf8") for a requests exception e
repr(e) == e \o "()"

\* the URI-Ms of a collection with near-duplicates: the raw content of m1, m3
\* and m4 is the same page, that of m2 another
DuplicatedURIMs == {"m1", "m2", "m3", "m4"}

\* the memento-datetime headers an archive serves
HeaderDates == {"Wed, 01 Jan 2020 00:00:00 GMT", "Tue, 01 Jun 2021 00:00:00 GMT"}

\* the headers the session holds when nothing else is said
StoredHeaders == [ urim \in DuplicatedURIMs |-> "Wed, 01 Jan 2020 00:00:00 GMT" ]

\* datetime.strptime(header, "%a, %d %b %Y %H:%M:%S GMT"), as the day number
\* yyyymmdd that orders datetimes as Python compares them
strptime(header) ==
    CASE header = "Wed, 01 Jan 2020 00:00:00 GMT" -> 20200101
      [] header = "Tue, 01 Jun 2021 00:00:00 GMT" -> 20210601

\* the callers that share the database, and each of them between calls
Callers == {"c1", "c2"}
NoCallers == [ c \in Callers |-> [ pc |-> "idle", op |-> None, urim |-> None ] ]

-----------------------------------------------------------------------------
(* The document stores *)

\* collection.find_one({"urim": urim}): the position of the first matching
\* document, 0 for None
find_one(collection, urim) ==
    IF \E i \in 1..Len(collection) : collection[i].urim = urim
    THEN CHOOSE i \in 1..Len(collection) :
            /\ collection[i].urim = urim
            /\ \A j \in 1..(i-1) : collection[j].urim # urim
    ELSE 0

\* x in list
In(x, list) == \E i \in 1..Len(list) : list[i] = x

\* the loop of lines 173-177 over the paragraphs
RECURSIVE content_without_boilerplate(_)
content_without_boilerplate(paragraphs) ==
    IF paragraphs = << >> THEN ""
    ELSE content_without_boilerplate(SubSeq(paragraphs, 1, Len(paragraphs) - 1))
            \o paragraphs[Len(paragraphs)] \o "\n"

-----------------------------------------------------------------------------
(* The methods, each as the result of one call in the current state:       *)
(* outcome ("return" or "raise <exception>"), value, the collaborators it  *)
(* invoked, and the stores as the call leaves them.                        *)

\* getMementoErrorInformation as it would be if the lookup were made only for
\* registered URI-Ms
getMementoErrorInformation_registered_only(urim) ==
    LET result == find_one(error_collection, urim) IN
    IF In(urim, urimlist) /\ result # 0
    THEN error_collection[result].error_information
    ELSE None

\* getMementoErrorInformation(urim)
getMementoErrorInformation(urim) ==
    LET result == find_one(error_collection, urim) IN
    IF result = 0
    THEN IF In(urim, urimlist) THEN None ELSE None  \* line 139, else falls off the end
    ELSE error_collection[result].error_information

\* getMementoContent(urim); net is what session.get does
getMementoContent(urim, net) ==
    LET raw_urim == generate_raw_urim(urim) IN
    IF net = "ok"
    THEN [ outcome |-> "return", value |-> Text(raw_urim), calls |-> {"session.get"} ]
    ELSE [ outcome |-> "raise " \o net, value |-> None, calls |-> {"session.get"} ]

\* getMementoContentWithoutBoilerplate as it would be if the bpfree lookup came
\* before the error check
getMementoContentWithoutBoilerplate_lookup_first(urim, net) ==
    LET bprecord == find_one(bpfree_collection, urim) IN
    IF bprecord # 0
    THEN [ outcome |-> "return",
           value |-> bpfree_collection[bprecord].boilerplate_free_content,
           calls |-> {}, bpfree |-> bpfree_collection ]
    ELSE IF getMementoErrorInformation(urim) # None
    THEN [ outcome |-> "raise CollectionModelMementoErrorException",
           value |-> None, calls |-> {}, bpfree |-> bpfree_collection ]
    ELSE
    LET content == getMementoContent(urim, net) IN
    IF content.outcome # "return"
    THEN [ outcome |-> content.outcome, value |-> None, calls |-> content.calls,
           bpfree |-> bpfree_collection ]
    ELSE
    LET extracted == justext(content.value) IN
    IF extracted.raised # None
    THEN [ outcome |-> "raise CollectionModelBoilerPlateRemovalFailureException",
           value |-> None, calls |-> content.calls \cup {"justext"},
           bpfree |-> bpfree_collection ]
    ELSE
    LET text == content_without_boilerplate(extracted.paragraphs) IN
    [ outcome |-> "return", value |-> text,
      calls |-> content.calls \cup {"justext", "bpfree.insert_one"},
      bpfree |-> Append(bpfree_collection,
                    [ urim |-> urim, boilerplate_free_content |-> text,
                      algorithm |-> "justext" ]) ]

\* getMementoContentWithoutBoilerplate as it would be without the bpfree lookup
getMementoContentWithoutBoilerplate_no_lookup(urim, net) ==
    IF getMementoErrorInformation(urim) # None
    THEN [ outcome |-> "raise CollectionModelMementoErrorException",
           value |-> None, calls |-> {}, bpfree |-> bpfree_collection ]
    ELSE
    LET content == getMementoContent(urim, net) IN
    IF content.outcome # "return"
    THEN [ outcome |-> content.outcome, value |-> None, calls |-> content.calls,
           bpfree |-> bpfree_collection ]
    ELSE
    LET extracted == justext(content.value) IN
    IF extracted.raised # None
    THEN [ outcome |-> "raise CollectionModelBoilerPlateRemovalFailureException",
           value |-> None, calls |-> content.calls \cup {"justext"},
           bpfree |-> bpfree_collection ]
    ELSE
    LET text == content_without_boilerplate(extracted.paragraphs) IN
    [ outcome |-> "return", value |-> text,
      calls |-> content.calls \cup {"justext", "bpfree.insert_one"},
      bpfree |-> Append(bpfree_collection,
                    [ urim |-> urim, boilerplate_free_content |-> text,
                      algorithm |-> "justext" ]) ]

\* getMementoContentWithoutBoilerplate storing an empty text when the
\* extractor cannot parse
getMementoContentWithoutBoilerplate_store_failure(urim, net) ==
    IF getMementoErrorInformation(urim) # None
    THEN [ outcome |-> "raise CollectionModelMementoErrorException",
           value |-> None, calls |-> {}, bpfree |-> bpfree_collection ]
    ELSE
    LET bprecord == find_one(bpfree_collection, urim) IN
    IF bprecord # 0
    THEN [ outcome |-> "return",
           value |-> bpfree_collection[bprecord].boilerplate_free_content,
           calls |-> {}, bpfree |-> bpfree_collection ]
    ELSE
    LET content == getMementoContent(urim, net) IN
    IF content.outcome # "return"
    THEN [ outcome |-> content.outcome, value |-> None, calls |-> content.calls,
           bpfree |-> bpfree_collection ]
    ELSE
    LET extracted == justext(content.value) IN
    IF extracted.raised # None
    THEN [ outcome |-> "raise CollectionModelBoilerPlateRemovalFailureException",
           value |-> None, calls |-> content.calls \cup {"justext", "bpfree.insert_one"},
           bpfree |-> Append(bpfree_collection,
                         [ urim |-> urim, boilerplate_free_content |-> "",
                           algorithm |-> "justext" ]) ]
    ELSE
    LET text == content_without_boilerplate(extracted.paragraphs) IN
    [ outcome |-> "return", value |-> text,
      calls |-> content.calls \cup {"justext", "bpfree.insert_one"},
      bpfree |-> Append(bpfree_collection,
                    [ urim |-> urim, boilerplate_free_content |-> text,
                      algorithm |-> "justext" ]) ]

\* getMementoContentWithoutBoilerplate(urim)
getMementoContentWithoutBoilerplate(urim, net) ==
    IF getMementoErrorInformation(urim) # None
    THEN [ outcome |-> "raise CollectionModelMementoErrorException",
           value |-> None, calls |-> {}, bpfree |-> bpfree_collection ]
    ELSE
    LET bprecord == find_one(bpfree_collection, urim) IN
    IF bprecord # 0
    THEN [ outcome |-> "return",
           value |-> bpfree_collection[bprecord].boilerplate_free_content,
           calls |-> {}, bpfree |-> bpfree_collection ]
    ELSE
    LET content == getMementoContent(urim, net) IN
    IF content.outcome # "return"
    THEN [ outcome |-> content.outcome, value |-> None, calls |-> content.calls,
           bpfree |-> bpfree_collection ]
    ELSE
    LET extracted == justext(content.value) IN
    IF extracted.raised # None
    THEN [ outcome |-> "raise CollectionModelBoilerPlateRemovalFailureException",
           value |-> None, calls |-> content.calls \cup {"justext"},
           bpfree |-> bpfree_collection ]
    ELSE
    LET text == content_without_boilerplate(extracted.paragraphs) IN
    [ outcome |-> "return", value |-> text,
      calls |-> content.calls \cup {"justext", "bpfree.insert_one"},
      bpfree |-> Append(bpfree_collection,
                    [ urim |-> urim, boilerplate_free_content |-> text,
                      algorithm |-> "justext" ]) ]

\* getRawSimhash as it would be if a found document were always brought up to
\* date: the fingerprint computed again and set on it
getRawSimhash_recompute(urim, net) ==
    IF getMementoErrorInformation(urim) # None
    THEN [ outcome |-> "raise CollectionModelMementoErrorException",
           value |-> None, calls |-> {}, derived |-> derived_collection ]
    ELSE
    LET derived_record == find_one(derived_collection, urim)
        content == getMementoContent(urim, net)
        raw_simhash == Simhash(content.value)
    IN
    IF content.outcome # "return"
    THEN [ outcome |-> content.outcome, value |-> None, calls |-> content.calls,
           derived |-> derived_collection ]
    ELSE IF derived_record # 0
    THEN [ outcome |-> "return", value |-> str(raw_simhash),
           calls |-> content.calls \cup {"Simhash", "derived.update"},
           derived |-> [ derived_collection EXCEPT
                            ![derived_record].raw_simhash = str(raw_simhash) ] ]
    ELSE [ outcome |-> "return", value |-> str(raw_simhash),
           calls |-> content.calls \cup {"Simhash", "derived.insert_one"},
           derived |-> Append(derived_collection,
                          [ urim |-> urim, raw_simhash |-> str(raw_simhash) ]) ]

\* getRawSimhash inserting a second document where the found one has no
\* "raw simhash"
getRawSimhash_insert_again(urim, net) ==
    IF getMementoErrorInformation(urim) # None
    THEN [ outcome |-> "raise CollectionModelMementoErrorException",
           value |-> None, calls |-> {}, derived |-> derived_collection ]
    ELSE
    LET derived_record == find_one(derived_collection, urim)
        content == getMementoContent(urim, net)
        raw_simhash == Simhash(content.value)
    IN
    IF derived_record # 0 /\ derived_collection[derived_record].raw_simhash # NoKey
    THEN [ outcome |-> "return",
           value |-> derived_collection[derived_record].raw_simhash,
           calls |-> {}, derived |-> derived_collection ]
    ELSE IF content.outcome # "return"
    THEN [ outcome |-> content.outcome, value |-> None, calls |-> content.calls,
           derived |-> derived_collection ]
    ELSE IF derived_record # 0
    THEN \* except KeyError: update(..., {"$set": {"raw simhash": ...}})
         [ outcome |-> "return", value |-> str(raw_simhash),
           calls |-> content.calls \cup {"Simhash", "derived.insert_one"},
           derived |-> Append(derived_collection,
                          [ urim |-> urim, raw_simhash |-> str(raw_simhash) ]) ]
    ELSE [ outcome |-> "return", value |-> str(raw_simhash),
           calls |-> content.calls \cup {"Simhash", "derived.insert_one"},
           derived |-> Append(derived_collection,
                          [ urim |-> urim, raw_simhash |-> str(raw_simhash) ]) ]

\* getRawSimhash(urim)
getRawSimhash(urim, net) ==
    IF getMementoErrorInformation(urim) # None
    THEN [ outcome |-> "raise CollectionModelMementoErrorException",
           value |-> None, calls |-> {}, derived |-> derived_collection ]
    ELSE
    LET derived_record == find_one(derived_collection, urim)
        content == getMementoContent(urim, net)
        raw_simhash == Simhash(content.value)
    IN
    IF derived_record # 0 /\ derived_collection[derived_record].raw_simhash # NoKey
    THEN [ outcome |-> "return",
           value |-> derived_collection[derived_record].raw_simhash,
           calls |-> {}, derived |-> derived_collection ]
    ELSE IF content.outcome # "return"
    THEN [ outcome |-> content.outcome, value |-> None, calls |-> content.calls,
           derived |-> derived_collection ]
    ELSE IF derived_record # 0
    THEN \* except KeyError: update(..., {"$set": {"raw simhash": ...}})
         [ outcome |-> "return", value |-> str(raw_simhash),
           calls |-> content.calls \cup {"Simhash", "derived.update"},
           derived |-> [ derived_collection EXCEPT
                            ![derived_record].raw_simhash = str(raw_simhash) ] ]
    ELSE [ outcome |-> "return", value |-> str(raw_simhash),
           calls |-> content.calls \cup {"Simhash", "derived.insert_one"},
           derived |-> Append(derived_collection,
                          [ urim |-> urim, raw_simhash |-> str(raw_simhash) ]) ]

\* getMementoURIList()
\* getMementoURIList handing out the list latest registration first
getMementoURIList_reversed ==
    [ i \in 1..Len(urimlist) |-> urimlist[Len(urimlist) + 1 - i] ]

getMementoURIList == urimlist

\* getTimeMapURIList()
getTimeMapURIList == uritlist

\* the record a call leaves in ret
\* the order of Python's str comparison on the URI-Ms of the model
lexicographic_rank(urim) ==
    CASE urim = "m1" -> 1 [] urim = "m2" -> 2 [] urim = "m3" -> 3 [] urim = "m4" -> 4

\* Python's tuple comparison a < b on (mdt, urim) pairs
tuple_less(a, b) ==
    \/ a[1] < b[1]
    \/ a[1] = b[1] /\ lexicographic_rank(a[2]) < lexicographic_rank(b[2])

\* sorted(matching_urims, reverse=True)
RECURSIVE sorted_reverse(_)
sorted_reverse(list) ==
    IF list = << >> THEN << >>
    ELSE LET x == Head(list)
             rest == sorted_reverse(Tail(list))
         IN SelectSeq(rest, LAMBDA y : tuple_less(x, y)) \o << x >>
            \o SelectSeq(rest, LAMBDA y : ~ tuple_less(x, y))

\* self.session.get(urim).headers
getMementoHeaders(urim) == [ memento_datetime |-> memento_datetime[urim] ]

\* derived_collection.find({"raw simhash": raw_simhash}), in the store's order
matching_cursor(raw_simhash) ==
    SelectSeq(derived_collection, LAMBDA record : record.raw_simhash = raw_simhash)

\* the (mdt, urim) pairs the loop of getFirstURIMByRawSimhash appends
matching_urims(raw_simhash) ==
    LET cursor == matching_cursor(raw_simhash) IN
    [ i \in 1..Len(cursor) |->
        << strptime(getMementoHeaders(cursor[i].urim).memento_datetime),
           cursor[i].urim >> ]

\* getFirstURIMByRawSimhash taking the first pair the cursor yields
getFirstURIMByRawSimhash_first_found(raw_simhash) ==
    LET matching == matching_urims(raw_simhash) IN
    IF matching = << >>
    THEN [ outcome |-> "raise IndexError", value |-> None, calls |-> {"derived.find"} ]
    ELSE [ outcome |-> "return", value |-> matching[1],
           calls |-> {"derived.find", "session.get"} ]

\* getFirstURIMByRawSimhash taking the last pair of the descending sort
getFirstURIMByRawSimhash_ascending(raw_simhash) ==
    LET matching == matching_urims(raw_simhash) IN
    IF matching = << >>
    THEN [ outcome |-> "raise IndexError", value |-> None, calls |-> {"derived.find"} ]
    ELSE [ outcome |-> "return",
           value |-> sorted_reverse(matching)[Len(matching)],
           calls |-> {"derived.find", "session.get"} ]

getFirstURIMByRawSimhash(raw_simhash) ==
    LET matching == matching_urims(raw_simhash) IN
    IF matching = << >>
    THEN \* sorted([])[0]
         [ outcome |-> "raise IndexError", value |-> None, calls |-> {"derived.find"} ]
    ELSE [ outcome |-> "return", value |-> sorted_reverse(matching)[1],
           calls |-> {"derived.find", "session.get"} ]

Called(op, arg, outcome, value, calls) ==
    [ op |-> op, arg |-> arg, outcome |-> outcome, value |-> value, calls |-> calls ]

-----------------------------------------------------------------------------
(* Actions of Spec: the memento operations *)

\* error_collection.insert_one({...})
\* addMementoError keeping only the record it writes
addMementoError_insert_replacing(urim, errorinformation) ==
    << [ urim |-> urim, error_information |-> errorinformation ] >>

addMementoError_insert(urim, errorinformation) ==
    Append(error_collection, [ urim |-> urim, error_information |-> errorinformation ])

addMementoError ==
    \E urim \in URIMs, errorinformation \in CallerErrorInfo :
        /\ Len(error_collection) < MaxErrors
        /\ error_collection' = addMementoError_insert(urim, errorinformation)
        /\ ret' = Called("addMementoError", urim, "return", None, {"error.insert_one"})
        /\ UNCHANGED << urimlist, uritlist, bpfree_collection, derived_collection >>
        /\ UNCHANGED << batchvars, classifyvars, othervars >>

\* addMemento(urim): the fetch of urim does first; the fetch of raw_urim,
\* made only when the first returned, does second
addMemento ==
    \E urim \in URIMs, first \in FetchOutcomes, second \in FetchOutcomes \cup {"not made"} :
        LET e == IF first # "ok" THEN first ELSE second IN
        /\ (first = "ok") <=> (second # "not made")
        /\ IF e = "ok"
           THEN /\ Len(urimlist) < MaxRegistered
                /\ urimlist' = Append(urimlist, urim)
                /\ ret' = Called("addMemento", urim, "return", None, {"session.get"})
                /\ UNCHANGED error_collection
           ELSE IF e \in {"ConnectionError", "TooManyRedirects"}
           THEN /\ Len(error_collection) < MaxErrors
                /\ error_collection' = addMementoError_insert(urim, repr(e))
                /\ ret' = Called("addMemento", urim, "return", None,
                                 {"session.get", "error.insert_one"})
                /\ UNCHANGED urimlist
           ELSE /\ ret' = Called("addMemento", urim, "raise " \o e, None, {"session.get"})
                /\ UNCHANGED << urimlist, error_collection >>
        /\ UNCHANGED << uritlist, bpfree_collection, derived_collection >>
        /\ UNCHANGED << batchvars, classifyvars, othervars >>

GetMementoErrorInformation ==
    \E urim \in URIMs :
        /\ ret' = Called("getMementoErrorInformation", urim, "return",
                         getMementoErrorInformation(urim), {"error.find_one"})
        /\ UNCHANGED << urimlist, uritlist, error_collection, bpfree_collection,
                        derived_collection >>
        /\ UNCHANGED << batchvars, classifyvars, othervars >>

GetMementoContent ==
    \E urim \in URIMs, net \in {"ok", "ConnectionError"} :
        LET r == getMementoContent(urim, net) IN
        /\ ret' = Called("getMementoContent", urim, r.outcome, r.value, r.calls)
        /\ UNCHANGED << urimlist, uritlist, error_collection, bpfree_collection,
                        derived_collection >>
        /\ UNCHANGED << batchvars, classifyvars, othervars >>

GetMementoContentWithoutBoilerplate ==
    \E urim \in URIMs, net \in {"ok", "ConnectionError"} :
        LET r == getMementoContentWithoutBoilerplate(urim, net) IN
        /\ ret' = Called("getMementoContentWithoutBoilerplate", urim,
                         r.outcome, r.value, r.calls)
        /\ bpfree_collection' = r.bpfree
        /\ UNCHANGED << urimlist, uritlist, error_collection, derived_collection >>
        /\ UNCHANGED << batchvars, classifyvars, othervars >>

GetRawSimhash ==
    \E urim \in URIMs, net \in {"ok", "ConnectionError"} :
        LET r == getRawSimhash(urim, net) IN
        /\ ret' = Called("getRawSimhash", urim, r.outcome, r.value, r.calls)
        /\ derived_collection' = r.derived
        /\ UNCHANGED << urimlist, uritlist, error_collection, bpfree_collection >>
        /\ UNCHANGED << batchvars, classifyvars, othervars >>

-----------------------------------------------------------------------------
(* Actions of TimeMapSpec: the TimeMap operations *)

\* convert_LinkTimeMap_to_dict(text): the dict form of a link-format TimeMap
convert_LinkTimeMap_to_dict(text) == "dict of " \o text

\* getTimeMap(urit); net is what session.get does
getTimeMap(urit, net) ==
    IF net = "ok"
    THEN [ outcome |-> "return", value |-> convert_LinkTimeMap_to_dict(Text(urit)),
           calls |-> {"session.get", "convert_LinkTimeMap_to_dict"} ]
    ELSE [ outcome |-> "raise " \o net, value |-> None, calls |-> {"session.get"} ]

\* addTimeMap appending before the fetch
addTimeMap_append_first ==
    \E urit \in URITs, net \in FetchOutcomes :
        /\ Len(uritlist) < MaxTimeMaps
        /\ uritlist' = Append(uritlist, urit)
        /\ ret' = Called("addTimeMap", urit,
                         IF net = "ok" THEN "return" ELSE "raise " \o net,
                         None, {"session.get"})
        /\ UNCHANGED << urimlist, error_collection, bpfree_collection, derived_collection >>
        /\ UNCHANGED << batchvars, classifyvars, othervars >>

\* addTimeMap(urit): the fetch, then the append
addTimeMap ==
    \E urit \in URITs, net \in FetchOutcomes :
        /\ IF net = "ok"
           THEN /\ Len(uritlist) < MaxTimeMaps
                /\ uritlist' = Append(uritlist, urit)
                /\ ret' = Called("addTimeMap", urit, "return", None, {"session.get"})
           ELSE /\ ret' = Called("addTimeMap", urit, "raise " \o net, None, {"session.get"})
                /\ UNCHANGED uritlist
        /\ UNCHANGED << urimlist, error_collection, bpfree_collection, derived_collection >>
        /\ UNCHANGED << batchvars, classifyvars, othervars >>

GetTimeMap ==
    \E urit \in URITs, net \in {"ok", "ConnectionError"} :
        LET r == getTimeMap(urit, net) IN
        /\ ret' = Called("getTimeMap", urit, r.outcome, r.value, r.calls)
        /\ UNCHANGED << urimlist, uritlist, error_collection, bpfree_collection,
                        derived_collection >>
        /\ UNCHANGED << batchvars, classifyvars, othervars >>

-----------------------------------------------------------------------------
(* Actions of RegistrySpec: reading the registration lists *)

GetMementoURIList ==
    /\ ret' = Called("getMementoURIList", None, "return", getMementoURIList, {})
    /\ UNCHANGED << urimlist, uritlist, error_collection, bpfree_collection,
                    derived_collection >>
    /\ UNCHANGED << batchvars, classifyvars, othervars >>

GetTimeMapURIList ==
    /\ ret' = Called("getTimeMapURIList", None, "return", getTimeMapURIList, {})
    /\ UNCHANGED << urimlist, uritlist, error_collection, bpfree_collection,
                    derived_collection >>
    /\ UNCHANGED << batchvars, classifyvars, othervars >>

-----------------------------------------------------------------------------
(* Actions of BatchSpec: one run of addManyMementos(urims)                 *)

\* how a fetch of a URI-M can settle: a response that carries memento-datetime,
\* a response that does not, or a RequestException
Settlements == {"memento", "no memento-datetime", "RequestException"}

\* the lists a caller may hand over, repeated URI-Ms included
BatchInputs == UNION { [1..n -> URIMs] : n \in 0..MaxBatch }

\* future.done()
done(future) == future # "running"

\* list.remove(x): the list without its first x
remove(list, x) ==
    LET i == CHOOSE k \in 1..Len(list) :
                 list[k] = x /\ \A j \in 1..(k-1) : list[j] # x
    IN SubSeq(list, 1, i - 1) \o SubSeq(list, i + 1, Len(list))

\* del futures[uri]
del(map, uri) == [ k \in DOMAIN map \ {uri} |-> map[k] ]

\* lines 63-73: a future for every URI-M and for its raw counterpart
addManyMementos_submit ==
    \E list \in BatchInputs :
        /\ pc = "idle"
        /\ urims' = list
        /\ working_urim_list' = list
        /\ futures' = [ uri \in { list[i] : i \in 1..Len(list) }
                              \cup { generate_raw_urim(list[i]) : i \in 1..Len(list) }
                          |-> "running" ]
        /\ pc' = "polling"
        /\ ret' = Called("addManyMementos", None, "running", None, {"futuressession.get"})
        /\ UNCHANGED << urimlist, uritlist, error_collection, bpfree_collection,
                        derived_collection, archive, classifyvars, othervars >>

\* the thread pool finishes the request of uri
settle ==
    \E uri \in DOMAIN futures, raw \in {"memento", "RequestException"} :
        /\ pc = "polling"
        /\ futures[uri] = "running"
        /\ futures' = [ futures EXCEPT
                          ![uri] = IF uri \in URIMs THEN archive[uri] ELSE raw ]
        /\ UNCHANGED << urimlist, uritlist, error_collection, bpfree_collection,
                        derived_collection, ret, pc, urims, working_urim_list,
                        archive, classifyvars, othervars >>

\* lines 85-97: the body of the loop for the drawn uri
addManyMementos_body(uri) ==
    IF uri \notin DOMAIN futures
    THEN \* futures[uri] raises KeyError, which leaves addManyMementos
         /\ pc' = "raised KeyError"
         /\ ret' = Called("addManyMementos", uri, "raise KeyError", None, {})
         /\ UNCHANGED << error_collection, working_urim_list, futures >>
    ELSE IF ~ done(futures[uri])
    THEN UNCHANGED << pc, ret, error_collection, working_urim_list, futures >>
    ELSE IF futures[uri] = "RequestException"
    THEN \* except RequestException: addMementoError, continue
         /\ Len(error_collection) < MaxErrors
         /\ error_collection' = addMementoError_insert(uri, repr("RequestException"))
         /\ UNCHANGED << pc, ret, working_urim_list, futures >>
    ELSE /\ IF futures[uri] = "no memento-datetime"
            THEN /\ Len(error_collection) < MaxErrors
                 /\ error_collection' =
                        addMementoError_insert(uri, "URI-M does not produce a memento")
            ELSE UNCHANGED error_collection
         /\ working_urim_list' = remove(working_urim_list, uri)
         /\ futures' = del(futures, uri)
         /\ UNCHANGED << pc, ret >>

\* lines 77-83: uri_generator yields a random.choice of the pending list
addManyMementos_draw ==
    /\ pc = "polling"
    /\ Len(working_urim_list) > 0
    /\ \E i \in 1..Len(working_urim_list) :
           addManyMementos_body(working_urim_list[i])
    /\ UNCHANGED << urimlist, uritlist, bpfree_collection, derived_collection,
                    urims, archive, classifyvars, othervars >>

\* the generator ends when the pending list is empty, and the method returns
addManyMementos_return ==
    /\ pc = "polling"
    /\ Len(working_urim_list) = 0
    /\ pc' = "returned"
    /\ ret' = Called("addManyMementos", None, "return", None, {})
    /\ UNCHANGED << urimlist, uritlist, error_collection, bpfree_collection,
                    derived_collection, urims, working_urim_list, futures,
                    archive, classifyvars, othervars >>

-----------------------------------------------------------------------------
(* Actions of DedupSpec: fingerprinting a collection with near-duplicates  *)
(* and resolving a fingerprint to its canonical URI-M                      *)

\* the fingerprints a caller asks about: those of the two pages, and one no
\* memento has
Fingerprints == { str(Simhash(Text(generate_raw_urim(urim)))) : urim \in DuplicatedURIMs }
                    \cup { str(7) }

GetRawSimhashOfDuplicates ==
    \E urim \in DuplicatedURIMs :
        LET r == getRawSimhash(urim, "ok") IN
        /\ ret' = Called("getRawSimhash", urim, r.outcome, r.value, r.calls)
        /\ derived_collection' = r.derived
        /\ UNCHANGED << urimlist, uritlist, error_collection, bpfree_collection >>
        /\ UNCHANGED << batchvars, classifyvars, othervars >>

GetFirstURIMByRawSimhash ==
    \E raw_simhash \in Fingerprints :
        LET r == getFirstURIMByRawSimhash(raw_simhash) IN
        /\ ret' = Called("getFirstURIMByRawSimhash", raw_simhash, r.outcome,
                         r.value, r.calls)
        /\ UNCHANGED << urimlist, uritlist, error_collection, bpfree_collection,
                        derived_collection >>
        /\ UNCHANGED << batchvars, classifyvars, othervars >>

-----------------------------------------------------------------------------
(* Actions of RaceSpec: two callers on one database, each call in two      *)
(* steps: the lookups up to find_one, then the fetch, the computation and  *)
(* the write                                                               *)

\* getRawSimhash lines 194-203, getMementoContentWithoutBoilerplate lines
\* 157-166: the error check and find_one; a call that finds its value (or an
\* Error Record) ends here
find_one_step(c) ==
    \E op \in {"getRawSimhash", "getMementoContentWithoutBoilerplate"}, urim \in URIMs :
        LET found == IF op = "getRawSimhash"
                     THEN find_one(derived_collection, urim)
                     ELSE find_one(bpfree_collection, urim)
        IN
        /\ callers[c].pc = "idle"
        /\ IF getMementoErrorInformation(urim) # None
           THEN /\ ret' = Called(op, urim, "raise CollectionModelMementoErrorException",
                                 None, {})
                /\ UNCHANGED callers
           ELSE IF found # 0 /\ op = "getMementoContentWithoutBoilerplate"
           THEN /\ ret' = Called(op, urim, "return",
                                 bpfree_collection[found].boilerplate_free_content, {})
                /\ UNCHANGED callers
           ELSE IF found # 0 /\ derived_collection[found].raw_simhash # NoKey
           THEN /\ ret' = Called(op, urim, "return",
                                 derived_collection[found].raw_simhash, {})
                /\ UNCHANGED callers
           ELSE /\ callers' = [ callers EXCEPT ![c] =
                                  [ pc |-> IF found # 0 THEN "update" ELSE "insert_one",
                                    op |-> op, urim |-> urim ] ]
                /\ UNCHANGED ret
        /\ UNCHANGED << urimlist, uritlist, error_collection, bpfree_collection,
                        derived_collection, batchvars, classifyvars,
                        memento_datetime, input_argument >>

\* getRawSimhash lines 205-224, getMementoContentWithoutBoilerplate lines
\* 168-190: the fetch, the computation and the write the lookup decided on
write_step(c) ==
    LET op == callers[c].op
        urim == callers[c].urim
        content == getMementoContent(urim, "ok").value
        raw_simhash == str(Simhash(content))
        extracted == justext(content)
        text == content_without_boilerplate(extracted.paragraphs)
    IN
    /\ callers[c].pc \in {"insert_one", "update"}
    /\ callers' = [ callers EXCEPT ![c] = [ pc |-> "idle", op |-> None, urim |-> None ] ]
    /\ IF op = "getRawSimhash"
       THEN /\ derived_collection' =
                  IF callers[c].pc = "update"
                  THEN [ derived_collection EXCEPT
                           ![find_one(derived_collection, urim)].raw_simhash = raw_simhash ]
                  ELSE Append(derived_collection,
                              [ urim |-> urim, raw_simhash |-> raw_simhash ])
            /\ ret' = Called(op, urim, "return", raw_simhash,
                             {"session.get", "Simhash", "derived." \o callers[c].pc})
            /\ UNCHANGED bpfree_collection
       ELSE IF extracted.raised # None
       THEN /\ ret' = Called(op, urim,
                             "raise CollectionModelBoilerPlateRemovalFailureException",
                             None, {"session.get", "justext"})
            /\ UNCHANGED << bpfree_collection, derived_collection >>
       ELSE /\ bpfree_collection' =
                  Append(bpfree_collection,
                         [ urim |-> urim, boilerplate_free_content |-> text,
                           algorithm |-> "justext" ])
            /\ ret' = Called(op, urim, "return", text,
                             {"session.get", "justext", "bpfree.insert_one"})
            /\ UNCHANGED derived_collection
    /\ UNCHANGED << urimlist, uritlist, error_collection, batchvars, classifyvars,
                    memento_datetime, input_argument >>

-----------------------------------------------------------------------------
(* detect_off_topic and the otmt.MeasureModel it drives                    *)

\* the collection the measures score: its TimeMaps and their mementos, in the
\* order MeasureModel.get_TimeMap_URIs / get_Memento_URIs_in_TimeMap list them
ClassifiedTimeMaps == << "t1", "t2" >>
MementosInTimeMap(urit) == IF urit = "t1" THEN << "m1", "m2" >> ELSE << "m3" >>
ClassifiedURIMs == {"m1", "m2", "m3"}

\* otmt.supported_timemap_measures[measure]["comparison direction"]: a score on
\* that side of the threshold is off-topic
Measures == {"cosine", "jaccard"}
comparison_direction(measure) == IF measure = "cosine" THEN "<" ELSE ">"

ScoreValues == {2, 4, 6}
Thresholds == {3, 5}

\* otmt.MeasureModel(): no TimeMap, no measure scored, no overall status
MeasureModel == [ timemaps |-> << >>, topic_status |-> << >>, overall |-> << >> ]

\* measuremodel.get_TimeMap_URIs()
get_TimeMap_URIs(mm) == mm.timemaps

\* otmt.supported_timemap_measures[measure]["function"](collection_model, mm)
\* followed by mm.calculate_offtopic_by_measure("timemap measures", measure,
\* threshold, direction): the topic status of every memento under this measure
calculate_offtopic_by_measure(mm, measure, sc, threshold, direction) ==
    LET status(urim) ==
            IF direction = "<"
            THEN IF sc[measure][urim] < threshold THEN "off-topic" ELSE "on-topic"
            ELSE IF sc[measure][urim] > threshold THEN "off-topic" ELSE "on-topic"
    IN [ mm EXCEPT !.timemaps = ClassifiedTimeMaps,
                   !.topic_status =
            [ m \in DOMAIN mm.topic_status \cup {measure} |->
                IF m = measure THEN [ urim \in ClassifiedURIMs |-> status(urim) ]
                ELSE mm.topic_status[m] ] ]

\* mm.calculate_overall_offtopic_status(): off-topic under any scored measure
\* makes a memento off-topic overall
calculate_overall_offtopic_status(mm) ==
    [ mm EXCEPT !.overall =
        [ urim \in ClassifiedURIMs |->
            IF \E m \in DOMAIN mm.topic_status : mm.topic_status[m][urim] = "off-topic"
            THEN "off-topic" ELSE "on-topic" ] ]

\* the mementos of the TimeMaps urits[i..], in scan order
RECURSIVE ScanOrder(_, _)
ScanOrder(urits, i) ==
    IF i > Len(urits) THEN << >>
    ELSE MementosInTimeMap(urits[i]) \o ScanOrder(urits, i + 1)

\* get_list_of_ontopic(measuremodel): the two nested loops, over the scan from
\* position i on; a memento without an overall status raises KeyError, which
\* is logged
\* get_list_of_ontopic whose scan ends at the first KeyError
RECURSIVE get_list_of_ontopic_from_aborting(_, _, _)
get_list_of_ontopic_from_aborting(mm, scan, i) ==
    IF i > Len(scan) THEN << >>
    ELSE LET urim == scan[i]
             rest == get_list_of_ontopic_from_aborting(mm, scan, i + 1)
         IN IF urim \notin DOMAIN mm.overall THEN << >>
            ELSE IF mm.overall[urim] = "on-topic" THEN << urim >> \o rest
            ELSE rest

\* get_list_of_ontopic putting each on-topic URI-M in front of the list
RECURSIVE get_list_of_ontopic_from_prepending(_, _, _)
get_list_of_ontopic_from_prepending(mm, scan, i) ==
    IF i > Len(scan) THEN << >>
    ELSE LET urim == scan[i]
             rest == get_list_of_ontopic_from_prepending(mm, scan, i + 1)
         IN IF urim \notin DOMAIN mm.overall THEN rest
            ELSE IF mm.overall[urim] = "on-topic" THEN rest \o << urim >>
            ELSE rest

RECURSIVE get_list_of_ontopic_from(_, _, _)
get_list_of_ontopic_from(mm, scan, i) ==
    IF i > Len(scan) THEN << >>
    ELSE LET urim == scan[i]
             rest == get_list_of_ontopic_from(mm, scan, i + 1)
         IN IF urim \notin DOMAIN mm.overall THEN rest
            ELSE IF mm.overall[urim] = "on-topic" THEN << urim >> \o rest
            ELSE rest

get_list_of_ontopic(mm) ==
    get_list_of_ontopic_from(mm, ScanOrder(get_TimeMap_URIs(mm), 1), 1)

\* detect_off_topic(collection_model, timemap_measures): the for loop of line
\* 284 from its i-th measure on.  The return of line 314 stands inside the
\* loop body, so the pass over the i-th measure ends the call; a loop that
\* has no i-th measure ends without a return statement, and the call yields None.
detect_off_topic_loop(mm, measures, sc, i) ==
    IF i > Len(measures)
    THEN [ none |-> TRUE, list |-> << >> ]
    ELSE LET measure == measures[i].measure
             threshold == measures[i].threshold
             scored == calculate_offtopic_by_measure(mm, measure, sc, threshold,
                            comparison_direction(measure))
             overall == calculate_overall_offtopic_status(scored)
         IN [ none |-> FALSE, list |-> get_list_of_ontopic(overall) ]

detect_off_topic(measures, sc) == detect_off_topic_loop(MeasureModel, measures, sc, 1)

\* the mappings a caller may hand over: each measure at most once, in either
\* iteration order, each with a threshold
MeasureMappings ==
    { << >> }
    \cup { << [ measure |-> m, threshold |-> t ] >> : m \in Measures, t \in Thresholds }
    \cup { << [ measure |-> p[1], threshold |-> t1 ], [ measure |-> p[2], threshold |-> t2 ] >> :
             p \in { q \in Measures \X Measures : q[1] # q[2] },
             t1 \in Thresholds, t2 \in Thresholds }

NotCalled == [ called |-> FALSE, none |-> FALSE, list |-> << >> ]

DetectOffTopic ==
    /\ ~ ontopic.called
    /\ LET r == detect_off_topic(timemap_measures, scores) IN
           ontopic' = [ called |-> TRUE, none |-> r.none, list |-> r.list ]
    /\ UNCHANGED << urimlist, uritlist, error_collection, bpfree_collection,
                    derived_collection, ret, batchvars, timemap_measures, scores,
                    measuremodel, othervars >>

\* the measure models get_list_of_ontopic may be handed: any of the TimeMaps
\* in either order, an overall status for any of the mementos
OverallStatuses ==
    UNION { [ D -> {"on-topic", "off-topic"} ] : D \in SUBSET ClassifiedURIMs }

TimeMapLists == { << >>, << "t1" >>, << "t2" >>, << "t1", "t2" >>, << "t2", "t1" >> }

MeasureModels ==
    { [ timemaps |-> urits, topic_status |-> << >>, overall |-> status ] :
        urits \in TimeMapLists, status \in OverallStatuses }

GetListOfOntopic ==
    /\ ~ ontopic.called
    /\ ontopic' = [ called |-> TRUE, none |-> FALSE,
                    list |-> get_list_of_ontopic(measuremodel) ]
    /\ UNCHANGED << urimlist, uritlist, error_collection, bpfree_collection,
                    derived_collection, ret, batchvars, timemap_measures, scores,
                    measuremodel, othervars >>

-----------------------------------------------------------------------------
(* process_collection_input_types (src/hypercane/actions/__init__.py)      *)

\* an -i argument is a string, here the sequence of its tokens: the names of
\* input types, the separator and an identifier
Tokens == { "archiveit", "timemap", "timemaps", "mementos", "original-resources",
            "warcs", "=", "8788" }

InputArguments == UNION { [ 1..n -> Tokens ] : n \in 0..MaxTokens }

\* the input types the help text of -i names as supported
help_supported_input_types == {"archiveit", "timemap", "mementos", "original-resources"}

supported_input_types ==
    << "archiveit", "timemaps", "mementos", "original-resources", "warcs" >>

\* input_argument.split('='): the strings between the separators
RECURSIVE split(_)
split(tokens) ==
    IF tokens = << >> THEN << "" >>
    ELSE LET rest == split(Tail(tokens)) IN
         IF Head(tokens) = "="
         THEN << "" >> \o rest
         ELSE << Head(tokens) \o rest[1] >> \o Tail(rest)

process_collection_input_types(argument) ==
    IF ~ In("=", argument)
    THEN [ outcome |-> "raise ArgumentTypeError", value |-> None ]
    ELSE LET parts == split(argument) IN
         IF Len(parts) # 2
         THEN \* input_type, argument = ... cannot unpack
              [ outcome |-> "raise ValueError", value |-> None ]
         ELSE IF ~ In(parts[1], supported_input_types)
         THEN [ outcome |-> "raise ArgumentTypeError", value |-> None ]
         ELSE [ outcome |-> "return", value |-> << parts[1], parts[2] >> ]

ProcessCollectionInputTypes ==
    /\ ret.op = "__init__"
    /\ LET r == process_collection_input_types(input_argument) IN
           ret' = Called("process_collection_input_types", None, r.outcome, r.value, {})
    /\ UNCHANGED << urimlist, uritlist, error_collection, bpfree_collection,
                    derived_collection, batchvars, classifyvars, othervars >>

-----------------------------------------------------------------------------
(* Initial states *)

NoCall == Called("__init__", None, "return", None, {})

\* the documents another session may have left in db.derivedvalues: none, or
\* one for m1 that holds other derived values and no "raw simhash"
StoredDerived ==
    { << >>,
      << [ urim |-> "m1", raw_simhash |-> NoKey, other_derived_value |-> "stored" ] >> }

InitIdle ==
    /\ pc = "idle"
    /\ urims = << >>
    /\ working_urim_list = << >>
    /\ futures = << >>
    /\ archive = [ u \in URIMs |-> "memento" ]
    /\ timemap_measures = << >>
    /\ scores = << >>
    /\ ontopic = NotCalled
    /\ measuremodel = MeasureModel
    /\ memento_datetime = StoredHeaders
    /\ callers = NoCallers
    /\ input_argument = << >>

Init ==
    /\ urimlist = << >>
    /\ uritlist = << >>
    /\ error_collection = << >>
    /\ bpfree_collection = << >>
    /\ derived_collection \in StoredDerived
    /\ ret = NoCall
    /\ InitIdle

Next ==
    \/ addMemento
    \/ addMementoError
    \/ GetMementoErrorInformation
    \/ GetMementoContent
    \/ GetMementoContentWithoutBoilerplate
    \/ GetRawSimhash

Spec == Init /\ [][Next]_vars

TimeMapNext ==
    \/ addTimeMap
    \/ GetTimeMap

TimeMapSpec == Init /\ [][TimeMapNext]_vars

\* a fresh Collection Model over empty stores, and an archive that answers each
\* URI-M in one of the three ways
BatchInit ==
    /\ urimlist = << >>
    /\ uritlist = << >>
    /\ error_collection = << >>
    /\ bpfree_collection = << >>
    /\ derived_collection = << >>
    /\ ret = NoCall
    /\ pc = "idle"
    /\ urims = << >>
    /\ working_urim_list = << >>
    /\ futures = << >>
    /\ archive \in [ URIMs -> Settlements ]
    /\ timemap_measures = << >>
    /\ scores = << >>
    /\ ontopic = NotCalled
    /\ measuremodel = MeasureModel
    /\ memento_datetime = StoredHeaders
    /\ callers = NoCallers
    /\ input_argument = << >>

BatchNext ==
    \/ addManyMementos_submit
    \/ settle
    \/ addManyMementos_draw
    \/ addManyMementos_return

BatchSpec == BatchInit /\ [][BatchNext]_vars

\* a measures mapping and the scores the measure functions give, before the call
ClassifyInit ==
    /\ urimlist = << >>
    /\ uritlist = << >>
    /\ error_collection = << >>
    /\ bpfree_collection = << >>
    /\ derived_collection = << >>
    /\ ret = NoCall
    /\ pc = "idle"
    /\ urims = << >>
    /\ working_urim_list = << >>
    /\ futures = << >>
    /\ archive = [ u \in URIMs |-> "memento" ]
    /\ timemap_measures \in MeasureMappings
    /\ scores \in [ Measures -> [ ClassifiedURIMs -> ScoreValues ] ]
    /\ ontopic = NotCalled
    /\ measuremodel = MeasureModel
    /\ memento_datetime = StoredHeaders
    /\ callers = NoCallers
    /\ input_argument = << >>

ClassifyNext == DetectOffTopic

ClassifySpec == ClassifyInit /\ [][ClassifyNext]_vars

\* DedupSpec: a fresh instance over a collection whose mementos carry any of
\* the capture times
DedupInit ==
    /\ urimlist = << >>
    /\ uritlist = << >>
    /\ error_collection = << >>
    /\ bpfree_collection = << >>
    /\ derived_collection = << >>
    /\ ret = NoCall
    /\ pc = "idle"
    /\ urims = << >>
    /\ working_urim_list = << >>
    /\ futures = << >>
    /\ archive = [ u \in URIMs |-> "memento" ]
    /\ timemap_measures = << >>
    /\ scores = << >>
    /\ ontopic = NotCalled
    /\ measuremodel = MeasureModel
    /\ memento_datetime \in [ DuplicatedURIMs -> HeaderDates ]
    /\ callers = NoCallers
    /\ input_argument = << >>

DedupNext ==
    \/ GetRawSimhashOfDuplicates
    \/ GetFirstURIMByRawSimhash

DedupSpec == DedupInit /\ [][DedupNext]_vars

\* PermanenceSpec: a single caller of the operations that write to the Error
\* Store or are gated by it
PermanenceNext ==
    \/ addMemento
    \/ addMementoError
    \/ GetMementoErrorInformation
    \/ GetMementoContentWithoutBoilerplate
    \/ GetRawSimhash

PermanenceSpec == Init /\ [][PermanenceNext]_vars

\* RegistrySpec: a single caller registering mementos and TimeMaps and
\* reading the registration lists
RegistryNext ==
    \/ addMemento
    \/ addTimeMap
    \/ GetMementoURIList
    \/ GetTimeMapURIList

RegistrySpec == Init /\ [][RegistryNext]_vars

\* OntopicSpec: get_list_of_ontopic applied to a drawn measure model
OntopicInit ==
    /\ urimlist = << >>
    /\ uritlist = << >>
    /\ error_collection = << >>
    /\ bpfree_collection = << >>
    /\ derived_collection = << >>
    /\ ret = NoCall
    /\ pc = "idle"
    /\ urims = << >>
    /\ working_urim_list = << >>
    /\ futures = << >>
    /\ archive = [ u \in URIMs |-> "memento" ]
    /\ timemap_measures = << >>
    /\ scores = << >>
    /\ ontopic = NotCalled
    /\ measuremodel \in MeasureModels
    /\ memento_datetime = StoredHeaders
    /\ callers = NoCallers
    /\ input_argument = << >>

OntopicNext == GetListOfOntopic

OntopicSpec == OntopicInit /\ [][OntopicNext]_vars

\* RaceSpec: two callers of getRawSimhash and
\* getMementoContentWithoutBoilerplate on one database
RaceNext ==
    \E c \in Callers :
        \/ find_one_step(c)
        \/ write_step(c)

RaceSpec == Init /\ [][RaceNext]_vars

\* InputSpec: process_collection_input_types applied to a drawn argument
InputInit ==
    /\ urimlist = << >>
    /\ uritlist = << >>
    /\ error_collection = << >>
    /\ bpfree_collection = << >>
    /\ derived_collection = << >>
    /\ ret = NoCall
    /\ pc = "idle"
    /\ urims = << >>
    /\ working_urim_list = << >>
    /\ futures = << >>
    /\ archive = [ u \in URIMs |-> "memento" ]
    /\ timemap_measures = << >>
    /\ scores = << >>
    /\ ontopic = NotCalled
    /\ measuremodel = MeasureModel
    /\ memento_datetime = StoredHeaders
    /\ callers = NoCallers
    /\ input_argument \in InputArguments

InputNext == ProcessCollectionInputTypes

InputSpec == InputInit /\ [][InputNext]_vars

-----------------------------------------------------------------------------
(* Properties *)

\* an Error Record exists for urim
HasErrorRecord(urim) == find_one(error_collection, urim) # 0

\* a score that is on the on-topic side of the threshold under the measure's
\* comparison direction
PassesThreshold(measure, score, threshold) ==
    IF comparison_direction(measure) = "<" THEN score >= threshold
    ELSE score <= threshold

\* C1: for a mapping of two or more measures, every URI-M that detect_off_topic
\* returns passes the threshold of every measure of the mapping.
C1_AndOverEveryMeasure ==
    (ontopic.called /\ Len(timemap_measures) >= 2) =>
        \A i \in 1..Len(ontopic.list) :
            \A k \in 1..Len(timemap_measures) :
                PassesThreshold(timemap_measures[k].measure,
                                scores[timemap_measures[k].measure][ontopic.list[i]],
                                timemap_measures[k].threshold)

\* C2: every pass of the polling loop that draws a URI-M whose fetch has settled
\* (as a success, a validation failure or a request exception) drops it from
\* the pending list.
C2_SettledDrawIsDropped ==
    [][ \A i \in 1..Len(working_urim_list) :
          ( /\ pc = "polling"
            /\ working_urim_list[i] \in DOMAIN futures
            /\ done(futures[working_urim_list[i]])
            /\ addManyMementos_body(working_urim_list[i]) )
          => Len(working_urim_list') = Len(working_urim_list) - 1 ]_vars

\* C3: when addManyMementos has returned for N distinct URI-Ms of which k fail
\* validation and N-k succeed, there are exactly k Error Records and exactly
\* N-k registered URI-Ms.
C3_BatchConverges ==
    ( /\ pc = "returned"
      /\ \A i, j \in 1..Len(urims) : urims[i] = urims[j] => i = j
      /\ \A i \in 1..Len(urims) : archive[urims[i]] # "RequestException" )
    => LET k == Cardinality({ i \in 1..Len(urims) :
                                archive[urims[i]] = "no memento-datetime" })
       IN /\ Len(error_collection) = k
          /\ Len(getMementoURIList) = Len(urims) - k

\* C4: a call of getMementoContentWithoutBoilerplate or getRawSimhash for a
\* URI-M that has an Error Record raises the memento-error exception, invokes
\* no collaborator and leaves every store as it was, cached values or not.
C4_ErrorGate ==
    [][ ( /\ ret'.op \in {"getMementoContentWithoutBoilerplate", "getRawSimhash"}
          /\ HasErrorRecord(ret'.arg) )
        => /\ ret'.outcome = "raise CollectionModelMementoErrorException"
           /\ ret'.calls = {}
           /\ UNCHANGED << error_collection, bpfree_collection, derived_collection >>
      ]_vars

\* C4 witness: the call raised for a URI-M whose boilerplate-free text is cached
C4_RaisedWithCachedText ==
    /\ ret.op = "getMementoContentWithoutBoilerplate"
    /\ ret.outcome = "raise CollectionModelMementoErrorException"
    /\ HasErrorRecord(ret.arg)
    /\ find_one(bpfree_collection, ret.arg) # 0

\* C5: a returning call of getMementoContentWithoutBoilerplate leaves the text
\* it returned in the store, and a call for an error-free URI-M whose text is
\* in the store returns that text, extracts nothing and inserts nothing.
C5_Memoized ==
    [][ ret'.op = "getMementoContentWithoutBoilerplate" =>
        LET u == ret'.arg
            before == find_one(bpfree_collection, u)
            after == find_one(bpfree_collection', u)
        IN /\ ret'.outcome = "return" =>
                /\ after # 0
                /\ bpfree_collection'[after].boilerplate_free_content = ret'.value
           /\ (before # 0 /\ ~ HasErrorRecord(u)) =>
                /\ ret'.outcome = "return"
                /\ ret'.value = bpfree_collection[before].boilerplate_free_content
                /\ "justext" \notin ret'.calls
                /\ bpfree_collection' = bpfree_collection
      ]_vars

\* C5 witness: a call answered from the store after an earlier call stored the text
C5_SecondCall ==
    /\ ret.op = "getMementoContentWithoutBoilerplate"
    /\ ret.outcome = "return"
    /\ ret.calls = {}
    /\ find_one(bpfree_collection, ret.arg) # 0
    /\ ret.value = "a\nb\n"

\* C6: no step changes or removes a stored boilerplate-free text or a stored
\* fingerprint, a returning getRawSimhash leaves the value it returned in the
\* store, and a getRawSimhash that returns for a URI-M with a stored
\* fingerprint returns the stored one without computing a fingerprint.
C6_WriteOnce ==
    [][ /\ \A i \in 1..Len(bpfree_collection) :
              /\ Len(bpfree_collection') >= i
              /\ bpfree_collection'[i] = bpfree_collection[i]
        /\ \A i \in 1..Len(derived_collection) :
              /\ Len(derived_collection') >= i
              /\ derived_collection'[i].urim = derived_collection[i].urim
              /\ derived_collection[i].raw_simhash # NoKey =>
                    derived_collection'[i] = derived_collection[i]
        /\ (ret'.op = "getRawSimhash" /\ ret'.outcome = "return") =>
              LET u == ret'.arg
                  before == find_one(derived_collection, u)
                  after == find_one(derived_collection', u)
              IN /\ after # 0
                 /\ derived_collection'[after].raw_simhash = ret'.value
                 /\ (before # 0 /\ derived_collection[before].raw_simhash # NoKey) =>
                       /\ ret'.value = derived_collection[before].raw_simhash
                       /\ "Simhash" \notin ret'.calls
      ]_vars

\* C6 witness: getRawSimhash answered from a fingerprint an earlier call stored
C6_StoredFingerprintReturned ==
    /\ ret.op = "getRawSimhash"
    /\ ret.outcome = "return"
    /\ ret.calls = {}
    /\ find_one(derived_collection, ret.arg) # 0
    /\ ret.value = derived_collection[find_one(derived_collection, ret.arg)].raw_simhash

C8_NoSuchMemento ==
    (ret.op = "getMementoContent" /\ ~ In(ret.arg, getMementoURIList)) =>
        ret.outcome = "raise CollectionModelNoSuchMementoException"

\* C9: getMementoContent(u) raises the memento-error exception whenever an
\* Error Record exists for u.
C9_MementoError ==
    (ret.op = "getMementoContent" /\ HasErrorRecord(ret.arg)) =>
        ret.outcome = "raise CollectionModelMementoErrorException"

\* C10: getTimeMap(t) raises a not-registered error for every t that was never
\* passed to addTimeMap.
C10_NotRegistered ==
    (ret.op = "getTimeMap" /\ ~ In(ret.arg, getTimeMapURIList)) =>
        ret.outcome = "raise NotRegistered"

\* C11: addMemento never lets a request exception of its fetches reach the
\* caller: whatever the fetches raise, the call returns.
C11_NoRequestExceptionPropagates ==
    ret.op = "addMemento" => ret.outcome = "return"

\* C12: every addMemento(u) call either adds one Error Record for u and leaves
\* the registered list alone, or appends u to the registered list and leaves
\* the Error Store alone.
C12_OneOfTwoEffects ==
    [][ ret'.op = "addMemento" =>
        LET u == ret'.arg IN
        \/ /\ Len(error_collection') = Len(error_collection) + 1
           /\ error_collection'[Len(error_collection')].urim = u
           /\ urimlist' = urimlist
        \/ /\ urimlist' = Append(urimlist, u)
           /\ error_collection' = error_collection
      ]_vars

\* the URI-Ms whose Derived Record holds fingerprint f
Group(f) ==
    { derived_collection[i].urim :
        i \in { j \in 1..Len(derived_collection) : derived_collection[j].raw_simhash = f } }

capture_time(urim) == strptime(memento_datetime[urim])

\* C13: getFirstURIMByRawSimhash(f) returns the maximum (capture_time, uri_m)
\* pair among the Derived Records whose fingerprint is f: no member of the
\* group is captured later, and of those captured at the same time none has
\* a lexicographically larger URI-M.
C13_MaximumPair ==
    (ret.op = "getFirstURIMByRawSimhash" /\ ret.outcome = "return") =>
        /\ ret.value[2] \in Group(ret.arg)
        /\ ret.value[1] = capture_time(ret.value[2])
        /\ \A urim \in Group(ret.arg) :
              \/ capture_time(urim) < ret.value[1]
              \/ /\ capture_time(urim) = ret.value[1]
                 /\ lexicographic_rank(urim) <= lexicographic_rank(ret.value[2])

\* a group of three whose two latest members are captured at the same time
C13_TieOnCaptureTime ==
    /\ ret.op = "getFirstURIMByRawSimhash"
    /\ ret.outcome = "return"
    /\ Cardinality(Group(ret.arg)) = 3
    /\ \E a \in Group(ret.arg), b \in Group(ret.arg), c \in Group(ret.arg) :
          /\ a # b
          /\ capture_time(a) = capture_time(b)
          /\ capture_time(c) < capture_time(a)
          /\ find_one(derived_collection, a) < find_one(derived_collection, b)
          /\ ret.value[2] = a

\* C14 as stated: the representative getFirstURIMByRawSimhash selects has the
\* earliest capture time of its group.
C14_EarliestCaptureTime ==
    (ret.op = "getFirstURIMByRawSimhash" /\ ret.outcome = "return") =>
        \A urim \in Group(ret.arg) : capture_time(ret.value[2]) <= capture_time(urim)

\* C14, amended: the representative getFirstURIMByRawSimhash selects is a
\* member of the group with the most recent capture time of the group.
C14_MostRecentCaptureTime ==
    (ret.op = "getFirstURIMByRawSimhash" /\ ret.outcome = "return") =>
        \E chosen \in Group(ret.arg) :
            /\ chosen = ret.value[2]
            /\ \A urim \in Group(ret.arg) : capture_time(urim) <= capture_time(chosen)

\* a group with two capture times, the earlier one stored first
C14_TwoCaptureTimes ==
    /\ ret.op = "getFirstURIMByRawSimhash"
    /\ ret.outcome = "return"
    /\ \E urim \in Group(ret.arg) :
          /\ capture_time(urim) < capture_time(ret.value[2])
          /\ find_one(derived_collection, urim) = 1

\* C15: a failed fetch is recorded once: during and after a run of
\* addManyMementos the Error Store holds at most one Error Record per URI-M
\* and failure category.
C15_RecordedOnce ==
    \A i, j \in 1..Len(error_collection) :
        ( /\ error_collection[i].urim = error_collection[j].urim
          /\ error_collection[i].error_information
                = error_collection[j].error_information )
        => i = j

\* C19: one stuck fetch blocks no other: in a run over distinct URI-Ms, when
\* the loop examines a URI-M whose fetch has settled while the fetch of
\* another is still running, the settled one leaves the pending list and the
\* running one stays in it.
C19_StuckFetchBlocksNoOther ==
    [][ \A i, j \in 1..Len(working_urim_list) :
          ( /\ pc = "polling"
            /\ \A k, l \in 1..Len(urims) : urims[k] = urims[l] => k = l
            /\ ~ done(futures[working_urim_list[j]])
            /\ done(futures[working_urim_list[i]])
            /\ addManyMementos_body(working_urim_list[i]) )
          => /\ ~ In(working_urim_list[i], working_urim_list')
             /\ In(working_urim_list[j], working_urim_list') ]_vars

\* C20: when addManyMementos has returned, both futures of every URI-M have
\* settled, and every URI-M whose own fetch or whose raw-content fetch failed
\* has an Error Record.
C20_BothFetchesRouted ==
    pc = "returned" =>
        \A i \in 1..Len(urims) :
            LET raw_urim == generate_raw_urim(urims[i]) IN
            /\ urims[i] \in DOMAIN futures => done(futures[urims[i]])
            /\ done(futures[raw_urim])
            /\ ( \/ archive[urims[i]] = "RequestException"
                 \/ futures[raw_urim] = "RequestException" )
               => HasErrorRecord(urims[i])

\* C16: the registration lists are append-only and ordered: a step changes
\* urimlist (uritlist) only by appending the URI-M (URI-T) of a successful
\* addMemento (addTimeMap) call, so every earlier list is a prefix of every
\* later one, and getMementoURIList / getTimeMapURIList return the lists in
\* that order.
C16_AppendOnly ==
    /\ [][ /\ urimlist' =
                 IF /\ ret'.op = "addMemento"
                    /\ ret'.outcome = "return"
                    /\ "error.insert_one" \notin ret'.calls
                 THEN Append(urimlist, ret'.arg) ELSE urimlist
           /\ uritlist' =
                 IF ret'.op = "addTimeMap" /\ ret'.outcome = "return"
                 THEN Append(uritlist, ret'.arg) ELSE uritlist
           /\ SubSeq(urimlist', 1, Len(urimlist)) = urimlist
           /\ SubSeq(uritlist', 1, Len(uritlist)) = uritlist
         ]_vars
    /\ [](ret.op = "getMementoURIList" => ret.value = urimlist)
    /\ [](ret.op = "getTimeMapURIList" => ret.value = uritlist)

\* both lists hold registrations out of lexical order, one of them repeated,
\* and the list of URI-Ms is read
C16_ListsReadInRegistrationOrder ==
    /\ ret.op = "getMementoURIList"
    /\ ret.value = << "m2", "m1" >>
    /\ uritlist = << "t2", "t1", "t2" >>
    /\ HasErrorRecord("m1")

Scanned(mm) ==
    { urim \in ClassifiedURIMs :
        \E i \in 1..Len(mm.timemaps) : In(urim, MementosInTimeMap(mm.timemaps[i])) }

\* C18: get_list_of_ontopic is fail-closed and does not abort: the call
\* returns a list, and a URI-M is in it exactly if it was scanned and its
\* overall status is there and equals "on-topic"; one whose status is missing
\* is left out while those scanned after it are still classified.
C18_FailClosed ==
    ontopic.called =>
        /\ ~ ontopic.none
        /\ \A urim \in ClassifiedURIMs :
              In(urim, ontopic.list)
                  <=> /\ urim \in Scanned(measuremodel)
                      /\ urim \in DOMAIN measuremodel.overall
                      /\ measuremodel.overall[urim] = "on-topic"

\* the first URI-M scanned has no overall status, a later one is on-topic
C18_MissingStatusBeforeOntopic ==
    /\ ontopic.called
    /\ measuremodel.timemaps = << "t2", "t1" >>
    /\ "m3" \notin DOMAIN measuremodel.overall
    /\ "m1" \notin DOMAIN measuremodel.overall
    /\ ontopic.list = << "m2" >>

\* C22: get_list_of_ontopic emits the on-topic URI-Ms in scan order: the
\* list it returns is the scan (the TimeMaps in the order the measure model
\* lists them, the mementos of each in listed order) with some URI-Ms left
\* out, none moved.
C22_ScanOrder ==
    ontopic.called =>
        ontopic.list =
            SelectSeq(ScanOrder(get_TimeMap_URIs(measuremodel), 1),
                      LAMBDA urim : In(urim, ontopic.list))

\* the second TimeMap listed first, with an on-topic memento in each
C22_TwoTimeMapsOutOfLexicalOrder ==
    /\ ontopic.called
    /\ measuremodel.timemaps = << "t2", "t1" >>
    /\ ontopic.list = << "m3", "m2" >>

\* C23: when the extractor cannot parse the content of an error-free URI-M,
\* getMementoContentWithoutBoilerplate raises the boilerplate-removal-failure
\* exception and writes to no store; and as nothing was stored, every call for
\* an error-free URI-M without stored text whose fetch succeeds runs the
\* extractor.
C23_ExtractionFailureWritesNothing ==
    [][ ret'.op = "getMementoContentWithoutBoilerplate" =>
        LET u == ret'.arg IN
        /\ ret'.outcome = "raise CollectionModelBoilerPlateRemovalFailureException" =>
              /\ UNCHANGED << error_collection, bpfree_collection, derived_collection,
                              urimlist, uritlist >>
              /\ find_one(bpfree_collection', u) = 0
              /\ find_one(error_collection', u) = 0
        /\ ( /\ ~ HasErrorRecord(u)
             /\ find_one(bpfree_collection, u) = 0
             /\ "session.get" \in ret'.calls
             /\ ret'.outcome # "raise ConnectionError" )
           => "justext" \in ret'.calls
        /\ ( /\ ~ HasErrorRecord(u)
             /\ find_one(bpfree_collection, u) = 0
             /\ "justext" \in ret'.calls
             /\ justext(Text(generate_raw_urim(u))).raised # None )
           => ret'.outcome = "raise CollectionModelBoilerPlateRemovalFailureException"
      ]_vars

\* the extraction failed for m2 while the text of m1 is stored
C23_ExtractionFailed ==
    /\ ret.op = "getMementoContentWithoutBoilerplate"
    /\ ret.arg = "m2"
    /\ ret.outcome = "raise CollectionModelBoilerPlateRemovalFailureException"
    /\ Len(bpfree_collection) = 1
    /\ bpfree_collection[1].urim = "m1"

\* C24: when a Derived Record exists for a URI-M without a fingerprint, a
\* returning getRawSimhash computes the fingerprint, sets it on that record
\* and returns it: there is still one Derived Record for the URI-M, with its
\* other fields as they were.
C24_FingerprintSetOnExistingRecord ==
    [][ LET u == ret'.arg
            before == find_one(derived_collection, u)
        IN ( /\ ret'.op = "getRawSimhash"
             /\ ret'.outcome = "return"
             /\ before # 0
             /\ derived_collection[before].raw_simhash = NoKey )
           => /\ "Simhash" \in ret'.calls
              /\ ret'.value = str(Simhash(Text(generate_raw_urim(u))))
              /\ Len(derived_collection') = Len(derived_collection)
              /\ Cardinality({ i \in 1..Len(derived_collection') :
                                  derived_collection'[i].urim = u }) = 1
              /\ derived_collection'[before].raw_simhash = ret'.value
              /\ DOMAIN derived_collection'[before] = DOMAIN derived_collection[before]
              /\ \A field \in DOMAIN derived_collection[before] \ {"raw_simhash"} :
                    derived_collection'[before][field] = derived_collection[before][field]
      ]_vars

\* the fingerprint of m1 was set on the document another session had stored
C24_FieldAdded ==
    /\ ret.op = "getRawSimhash"
    /\ ret.arg = "m1"
    /\ "derived.update" \in ret.calls
    /\ derived_collection[1].other_derived_value = "stored"
    /\ derived_collection[1].raw_simhash = "11"

\* C25: a call of addTimeMap(t) whose fetch raises raises to the caller and
\* leaves the registered TimeMap list as it was; a call that returns has made
\* the fetch and appended t.
C25_AppendAfterFetch ==
    [][ ret'.op = "addTimeMap" =>
        /\ "session.get" \in ret'.calls
        /\ \/ /\ ret'.outcome = "return"
              /\ uritlist' = Append(uritlist, ret'.arg)
           \/ /\ ret'.outcome \in { "raise " \o net : net \in FetchOutcomes \ {"ok"} }
              /\ uritlist' = uritlist
      ]_vars

\* the fetch of a TimeMap raised after another was registered
C25_FetchRaised ==
    /\ ret.op = "addTimeMap"
    /\ ret.arg = "t2"
    /\ ret.outcome = "raise ConnectionError"
    /\ uritlist = << "t1" >>

\* C26: in addManyMementos, whatever the input list, every entry of the
\* pending list is a key of the futures map, and the loop never fails on a
\* missing handle.
C26_PendingHaveHandles ==
    /\ pc # "raised KeyError"
    /\ pc = "polling" =>
          \A i \in 1..Len(working_urim_list) : working_urim_list[i] \in DOMAIN futures

\* C27: detect_off_topic returns a list of URI-Ms for every measures mapping,
\* the empty list for the empty mapping.
C27_AlwaysAList ==
    ontopic.called =>
        /\ ~ ontopic.none
        /\ timemap_measures = << >> => ontopic.list = << >>

\* C21: memoizing writes tolerate races: however two callers interleave
\* getRawSimhash or getMementoContentWithoutBoilerplate for a URI-M, each
\* store holds at most one record for it, and exactly one once a call that
\* computed its value has returned.
C21_OneRecordPerURIM ==
    \A urim \in URIMs :
        /\ Cardinality({ i \in 1..Len(derived_collection) :
                            derived_collection[i].urim = urim }) <= 1
        /\ Cardinality({ i \in 1..Len(bpfree_collection) :
                            bpfree_collection[i].urim = urim }) <= 1
        /\ ( /\ ret.arg = urim
             /\ ret.outcome = "return"
             /\ ret.op = "getRawSimhash" )
           => Cardinality({ i \in 1..Len(derived_collection) :
                               derived_collection[i].urim = urim }) = 1

\* C28: process_collection_input_types accepts <type>=<identifier> for every
\* input type the help text of -i names, returning the pair (type,
\* identifier), and rejects with an argument error every argument without '='
\* or with another type (argparse reports the ValueError of a failed unpacking
\* as an argument error too).
C28_HelpTextTypesAccepted ==
    ret.op = "process_collection_input_types" =>
        /\ ( /\ Len(input_argument) = 3
             /\ input_argument[1] \in help_supported_input_types
             /\ input_argument[2] = "="
             /\ input_argument[3] # "=" )
           => /\ ret.outcome = "return"
              /\ ret.value = << input_argument[1], input_argument[3] >>
        /\ ( \/ ~ In("=", input_argument)
             \/ split(input_argument)[1] \notin help_supported_input_types )
           => ret.outcome \in {"raise ArgumentTypeError", "raise ValueError"}

====
